---------------------------- MODULE Spec2Model ----------------------------
(***************************************************************************)
(* State-machine model of the vue-ketting hooks:                           *)
(*   useResolveResource, useReadResource, useResource, usePagedCollection. *)
(*                                                                         *)
(* One hook instance is modelled together with the Ketting client it talks *)
(* to (cache, requests in flight, update/stale events) and the Vue         *)
(* scheduler (the queue of watcher jobs that a flush runs to completion).  *)
(*                                                                         *)
(* Encoding.  Resources are identified by their uri, a positive integer;   *)
(* NoRes stands for `undefined`.  A ResourceState is a record              *)
(* [uri, data]; its links are a function of the document (followAll,       *)
(* hasNext).  NoState stands for `undefined`.                              *)
(***************************************************************************)
EXTENDS Integers, Sequences, FiniteSets, TLC

(* ------------------------------ bounds -------------------------------- *)
\* number of pages of the paged collection (linked by 'next')
NumPages == 3
\* payloads / document versions are 0..MaxData
MaxData == 1
\* PUT, POST and refresh requests that may be in flight at once
MaxPending == 2
\* update / stale events that other users of the client cause in one run
MaxEvents == 2

(* ---------------------------- constants ------------------------------- *)
NoRes == 0
NoData == -1
BlankUri == -1

Data == 0..MaxData
Pages == 1..NumPages
\* the uri of the n-th resource created by a POST
CreatedUri(n) == NumPages + n
Uris == 1..(NumPages + MaxPending)
\* the resource the reference of a useResource instance points at
Target == 1

NoState == [uri |-> NoRes, data |-> 0]
mkState(u, d) == [uri |-> u, data |-> d]

\* The identity of a state object, as far as the cell is concerned:
\*   "none"    no object (undefined)
\*   "given"   the initialState object the consumer passed to the hook
\*   "fresh"   an object made by clone(), referenced by nobody else
\*   "cached"  the object the client's cache keeps for the uri
\*   "carried" the object an 'update' event carries or a caller passed in
\* state.clone()
clone(obj) == "fresh"

\* state.followAll(rel): the member handles linked from the document
followAll(state) == [i \in 1..(state.data + 1) |-> 10 * state.uri + i]
\* state.links.has('next')
hasNext(state) == state.uri \in Pages /\ state.uri < NumPages
\* state.follow('next')
followNext(state) == state.uri + 1

VARIABLES
  options,        \* the hook's options, fixed at setup
  pendingRef,     \* the resolver has not assigned the resource yet
  resolverError,  \* useResolveResource's error cell
  resource,       \* the resource cell (a uri or NoRes)
  resourceState,  \* the resourceState cell
  cellObj,        \* which object the resourceState cell holds
  loading,        \* the loading cell
  error,          \* useReadResource's error cell ("none" = null)
  modeVal,        \* useResource's modeVal cell
  dataCell,       \* the computed `data`: [dirty, value]
  items,          \* the collection hooks' items cell
  listeners,      \* uris whose resource carries this instance's listeners
  cleanupFor,     \* uri the subscription watcher's onInvalidate will release
  queue,          \* pending watcher jobs, in the order they will run
  userTurn,       \* the queue was filled by consumer code still running
  cache,          \* the client's state cache: uri -> state or NoState
  gets,           \* uris with a GET in flight whose rejection we catch
  refreshes,      \* uri -> number of refresh() calls in flight
  puts,           \* PUTs in flight: <<[uri, data, aliased]>>
  posts,          \* POSTs in flight: <<[uri, data]>>
  created,        \* number of resources created by POSTs so far
  overlapped,     \* history: a submit() was called while a POST was in flight
  events,         \* number of external update / stale events so far
  torn,           \* the consuming component was unmounted
  peer,           \* a second instance on Target: [attached, resourceState]
  last            \* the last step: [op, arg, out], out = what it emitted

vars == <<options, pendingRef, resolverError, resource, resourceState, cellObj, loading,
          error, modeVal, dataCell, items, listeners, cleanupFor, queue,
          userTurn, cache, gets, refreshes, puts, posts, created, overlapped, events,
          torn, peer, last>>

(* --------------------- the mutable state as a record ------------------ *)
Cur == [resource |-> resource, resourceState |-> resourceState, cellObj |-> cellObj,
        loading |-> loading, error |-> error, modeVal |-> modeVal,
        dataCell |-> dataCell, items |-> items, listeners |-> listeners,
        cleanupFor |-> cleanupFor, queue |-> queue, cache |-> cache,
        gets |-> gets, refreshes |-> refreshes, puts |-> puts,
        posts |-> posts, peer |-> peer, out |-> <<>>]

Commit(s, op, arg) ==
  /\ resource' = s.resource
  /\ resourceState' = s.resourceState
  /\ cellObj' = s.cellObj
  /\ loading' = s.loading
  /\ error' = s.error
  /\ modeVal' = s.modeVal
  /\ dataCell' = s.dataCell
  /\ items' = s.items
  /\ listeners' = s.listeners
  /\ cleanupFor' = s.cleanupFor
  /\ queue' = s.queue
  /\ cache' = s.cache
  /\ gets' = s.gets
  /\ refreshes' = s.refreshes
  /\ puts' = s.puts
  /\ posts' = s.posts
  /\ peer' = s.peer
  /\ last' = [op |-> op, arg |-> arg, out |-> s.out]

\* an effect the step emits towards the client or the consumer
Eff(op, uri, data) == [op |-> op, uri |-> uri, data |-> data]
Emit(s, e) == [s EXCEPT !.out = Append(@, e)]

InSeq(q, x) == \E i \in 1..Len(q) : q[i] = x
\* the step's output holds an effect of this kind
HasEff(out, op) == \E i \in 1..Len(out) : out[i].op = op

(* ------------------------- reactive cells ----------------------------- *)
\* watchers in creation order, per watched cell
ResourceWatchers == <<"sub", "fetch">>
ErrorWatchers == <<"error">>
StateWatchers ==
  CASE options.kind = "paged" -> <<"state", "items">>
    [] options.kind = "collection" -> <<"state", "members">>
    [] OTHER -> <<"state">>

\* queueJob: a job already waiting is not queued twice; a watcher stopped by
\* the unmount of its component queues nothing
Trigger(s, ws) ==
  IF torn THEN s
  ELSE [s EXCEPT !.queue = @ \o SelectSeq(ws, LAMBDA w : ~InSeq(s.queue, w))]

\* resource.value = v   (handles are identical iff their uris are)
setResource(s, v) ==
  IF v = s.resource THEN s
  ELSE Trigger([s EXCEPT !.resource = v], ResourceWatchers)

\* resourceState.value = <a state object that is not the one in the cell>
setResourceStateValue(s, st, obj) ==
  Trigger([s EXCEPT !.resourceState = st,
                    !.cellObj = obj,
                    !.dataCell.dirty = TRUE,
                    !.puts = [i \in 1..Len(@) |-> [@[i] EXCEPT !.aliased = FALSE]]],
          StateWatchers)

\* resourceState.value = undefined
clearResourceState(s) ==
  IF s.resourceState = NoState THEN s ELSE setResourceStateValue(s, NoState, "none")

\* error.value = err   (every rejection is a new Error object)
setError(s, e) == Trigger([s EXCEPT !.error = e], ErrorWatchers)

\* loading.value = b   (no watcher watches loading)
setLoading(s, b) == [s EXCEPT !.loading = b]

(* ------------------- the Ketting client, as called -------------------- *)
\* an 'update' listener that keeps a state it already has
onUpdate_KeepsLocal(s, newState) ==
  IF s.resourceState = NoState
  THEN setResourceStateValue(s, newState, clone("carried"))
  ELSE s

\* onUpdate, the 'update' listener of the subscription watcher
\* resourceState.value = newState.clone()
onUpdate(s, newState) == setResourceStateValue(s, newState, clone("carried"))

\* a 'stale' listener that refreshes whatever refreshOnStale says
onStale_IgnoresOption(s, u) ==
  Emit([s EXCEPT !.refreshes[u] = @ + 1], Eff("refresh", u, 0))

\* a 'stale' listener that drops the state and shows loading while it refreshes
onStale_ShowsLoading(s, u) ==
  IF options.refreshOnStale
  THEN Emit([setLoading(clearResourceState(s), TRUE) EXCEPT !.refreshes[u] = @ + 1],
            Eff("refresh", u, 0))
  ELSE s

\* onStale, the 'stale' listener of the subscription watcher
onStale(s, u) ==
  IF options.refreshOnStale
  THEN Emit([s EXCEPT !.refreshes[u] = @ + 1], Eff("refresh", u, 0))
  ELSE s

\* the second instance's onUpdate: resourceState.value = newState.clone()
peerOnUpdate(s, newState) == [s EXCEPT !.peer.resourceState = newState]

\* resource u emits 'update': every listener registered on u runs, ours
\* and the second instance's
emitUpdate(s, u, st) ==
  LET s1 == IF u \in s.listeners THEN onUpdate(s, st) ELSE s
  IN IF s.peer.attached /\ u = Target THEN peerOnUpdate(s1, st) ELSE s1

\* resource u emits 'stale'
emitStale(s, u) == IF u \in s.listeners THEN onStale(s, u) ELSE s

\* client.cacheState(state): store a copy, then notify the resource's listeners
cacheState(s, st) ==
  IF st.uri \in Uris
  THEN emitUpdate([s EXCEPT !.cache[st.uri] = st], st.uri, st)
  ELSE s

\* resource.updateCache(state), called on handle u: refuses a state of another uri
updateCache(s, u, st) ==
  IF st.uri # u
  THEN Emit(s, Eff("throw:uriMismatch", u, st.data))
  ELSE cacheState(Emit(s, Eff("updateCache", u, st.data)), st)

\* a cache that hands out the very object it keeps
cacheGet_StoredObject == "cached"

\* client.cache.get(uri): the object handed out is a copy of the stored one
cacheGet == clone("cached")

(* ----------------------------- watchers ------------------------------- *)
\* a subscription watcher whose earlier listeners are never removed
SubscriptionWatcher_KeepsListeners(s) ==
  LET val == s.resource
  IN IF val = NoRes \/ options.mode = "POST" THEN s
     ELSE [s EXCEPT !.listeners = @ \cup {val}, !.cleanupFor = val]

\* useReadResource, first watch(resource): listeners for update / stale
SubscriptionWatcher(s) ==
  LET val == s.resource
      \* the previous run's onInvalidate callback runs first
      s1 == [s EXCEPT !.listeners = @ \ {s.cleanupFor}, !.cleanupFor = NoRes]
  IN IF val = NoRes \/ options.mode = "POST" THEN s1
     ELSE [s1 EXCEPT !.listeners = @ \cup {val}, !.cleanupFor = val]

\* a GET that leaves the configured headers out
issueGet_NoHeaders(s, val) ==
  Emit([s EXCEPT !.gets = @ \cup {val}], Eff("GET", val, 0))

\* val.get({ headers: options.initialGetRequestHeaders }).catch(...)
issueGet(s, val) ==
  Emit([s EXCEPT !.gets = @ \cup {val}], Eff("GET", val, IF options.headers THEN 1 ELSE 0))

\* the fetch watcher with the cache lookup left out
FetchWatcher_NoCacheLookup(s) ==
  LET val == s.resource
      state == s.resourceState
  IN IF val = NoRes \/ options.mode = "POST" THEN s
     ELSE IF state # NoState /\ state.uri = val THEN s
     ELSE issueGet(setLoading(clearResourceState(s), TRUE), val)

\* the fetch watcher without the test of the mode
FetchWatcher_IgnoresMode(s) ==
  LET val == s.resource
      state == s.resourceState
  IN IF val = NoRes THEN s
     ELSE IF state # NoState /\ state.uri = val THEN s
     ELSE IF s.cache[val] # NoState
          THEN setResourceStateValue(Emit(s, Eff("cacheHit", val, s.cache[val].data)),
                                     s.cache[val], cacheGet)
     ELSE issueGet(setLoading(clearResourceState(s), TRUE), val)

\* the fetch watcher without the test of the uri of the state it has
FetchWatcher_NoUriMatch(s) ==
  LET val == s.resource
  IN IF val = NoRes \/ options.mode = "POST" THEN s
     ELSE IF s.cache[val] # NoState
          THEN setResourceStateValue(Emit(s, Eff("cacheHit", val, s.cache[val].data)),
                                     s.cache[val], cacheGet)
     ELSE issueGet(setLoading(clearResourceState(s), TRUE), val)

\* useReadResource, second watch(resource): the initial ResourceState
FetchWatcher(s) ==
  LET val == s.resource
      state == s.resourceState
  IN IF val = NoRes \/ options.mode = "POST" THEN s
     ELSE IF state # NoState /\ state.uri = val THEN s
     ELSE IF s.cache[val] # NoState
          THEN setResourceStateValue(Emit(s, Eff("cacheHit", val, s.cache[val].data)),
                                     s.cache[val], cacheGet)
     ELSE issueGet(setLoading(clearResourceState(s), TRUE), val)

\* an error watcher that leaves loading alone
ErrorWatcher_KeepsLoading(s) == s

\* watch(error): an error ends loading
ErrorWatcher(s) == IF s.error # "none" THEN setLoading(s, FALSE) ELSE s

\* watch(resourceState): a state ends loading
StateWatcher(s) == IF s.resourceState # NoState THEN setLoading(s, FALSE) ELSE s

\* the items watcher replacing the list, as useCollection does
ItemsWatcher_Replaces(s) ==
  IF s.resourceState = NoState THEN s
  ELSE [s EXCEPT !.items = followAll(s.resourceState)]

\* an items watcher that puts the page's members in front
ItemsWatcher_Prepends(s) ==
  IF s.resourceState = NoState THEN s
  ELSE [s EXCEPT !.items = followAll(s.resourceState) \o @]

\* usePagedCollection, watch(resourceState): append the page's members
ItemsWatcher(s) ==
  IF s.resourceState = NoState THEN s
  ELSE [s EXCEPT !.items = @ \o followAll(s.resourceState)]

\* a collection watcher that appends, as the paged collection's does
CollectionWatcher_Appends(s) ==
  IF s.resourceState = NoState THEN s
  ELSE [s EXCEPT !.items = @ \o followAll(s.resourceState)]

\* useCollection, watch(resourceState): items.value = val.followAll(rel)
CollectionWatcher(s) ==
  IF s.resourceState = NoState THEN s
  ELSE [s EXCEPT !.items = followAll(s.resourceState)]

RunWatcher(w, s) ==
  CASE w = "sub" -> SubscriptionWatcher(s)
    [] w = "fetch" -> FetchWatcher(s)
    [] w = "error" -> ErrorWatcher(s)
    [] w = "state" -> StateWatcher(s)
    [] w = "items" -> ItemsWatcher(s)
    [] w = "members" -> CollectionWatcher(s)

\* flushJobs: run the queued jobs, and those they queue, until none is left
RECURSIVE RunQueue(_)
RunQueue(s) ==
  IF s.queue = <<>> THEN s
  ELSE RunQueue(RunWatcher(Head(s.queue), [s EXCEPT !.queue = Tail(@)]))

\* the payload the `data` computed evaluates to
Payload(st) == IF st = NoState THEN NoData ELSE st.data

\* the consumer's template: `data` is read only once loading is false
Render(s) ==
  IF options.kind = "resource" /\ ~s.loading /\ s.dataCell.dirty
  THEN [s EXCEPT !.dataCell = [dirty |-> FALSE, value |-> Payload(s.resourceState)]]
  ELSE s

\* what a consumer reading data.value gets
DataValue == IF dataCell.dirty THEN Payload(resourceState) ELSE dataCell.value

\* hasNextPage derived from the handle in the resource cell
hasNextPage_FromResource == resource \in Pages /\ resource < NumPages

\* usePagedCollection's hasNextPage computed
hasNextPage == resourceState # NoState /\ hasNext(resourceState)

Settled == queue = <<>>

(* ------------------------------ setup --------------------------------- *)
\* useResourceState: the cell starts from initialState (the cache lookup tests
\* a Ref against Resource, which never holds)
InitialState(o) ==
  CASE o.init = "none" -> NoState
    [] o.init = "match" -> mkState(Target, 0)
    [] o.init = "blank" -> mkState(BlankUri, 0)

ResourceOptions ==
  { o \in [kind : {"resource"}, mode : {"PUT", "POST"}, refreshOnStale : BOOLEAN,
           init : {"none", "match", "blank"},
           headers : {FALSE}, ref : {"promise"}] :
      o.mode = "POST" => o.init # "none" }

PagedOptions ==
  [kind : {"paged"}, mode : {"PUT"}, refreshOnStale : BOOLEAN,
   init : {"none"}, headers : {TRUE}, ref : {"promise"}]

\* useCollection: no initial state, the Prefer header on the first fetch
CollectionOptions ==
  [kind : {"collection"}, mode : {"PUT"}, refreshOnStale : BOOLEAN,
   init : {"none"}, headers : {TRUE}, ref : {"promise"}]

\* two PUT-mode useResource instances on the same resource
PeerOptions == { o \in ResourceOptions : o.mode = "PUT" /\ o.init # "blank" }

\* useReadResource called directly, with every kind of reference
ReadOptions ==
  { o \in [kind : {"read"}, mode : {"PUT", "POST"}, refreshOnStale : BOOLEAN,
           init : {"none", "match"}, headers : BOOLEAN,
           ref : {"uri", "badUri", "handle", "promise"}] :
      o.mode = "POST" => o.init # "none" }

\* quickResolve: client.go(uri) fails for a uri it cannot resolve
goThrows(ref) == ref = "badUri"

\* quickResolve: the handle known synchronously, if any
quickResolve(ref) == IF ref \in {"uri", "handle"} THEN Target ELSE NoRes

\* a resolver that assigns the handle it already has inside the invocation
ResourceAtReturn_Inline(ref) == quickResolve(ref)

\* useResolveResource: the value of the resource cell when the hook returns
ResourceAtReturn(ref) == NoRes

Arg(u, d) == [uri |-> u, data |-> d]
NoArg == Arg(NoRes, 0)

NoPeer == [attached |-> FALSE, resourceState |-> NoState]

SetupCells(o, cachedUris) ==
  /\ options = o
  /\ pendingRef = ~goThrows(o.ref)
  /\ resolverError = "none"
  /\ resource = ResourceAtReturn(o.ref)
  /\ resourceState = InitialState(o)
  /\ cellObj = (IF InitialState(o) = NoState THEN "none" ELSE "given")
  /\ loading = (InitialState(o) = NoState)
  /\ error = "none"
  /\ modeVal = o.mode
  /\ dataCell = IF o.kind = "resource" /\ InitialState(o) # NoState
                THEN [dirty |-> FALSE, value |-> Payload(InitialState(o))]
                ELSE [dirty |-> TRUE, value |-> NoData]
  /\ items = <<>>
  /\ listeners = {}
  /\ cleanupFor = NoRes
  /\ queue = <<>>
  /\ userTurn = FALSE
  /\ \E d \in Data :
       cache = [u \in Uris |-> IF u \in cachedUris THEN mkState(u, d) ELSE NoState]
  /\ gets = {}
  /\ refreshes = [u \in Uris |-> 0]
  /\ puts = <<>>
  /\ posts = <<>>
  /\ created = 0
  /\ overlapped = FALSE
  /\ events = 0
  /\ torn = FALSE
  /\ last = [op |-> "setup", arg |-> NoArg,
             out |-> IF goThrows(o.ref) THEN <<Eff("throw:go", NoRes, 0)>> ELSE <<>>]

\* one instance on the client
Setup(o, cachedUris) == SetupCells(o, cachedUris) /\ peer = NoPeer

\* an instance created while a second one listens to Target: the second one
\* holds the cached state, or none while the shared GET is outstanding
SetupWithPeer(o, cachedUris) ==
  /\ SetupCells(o, cachedUris)
  /\ peer = [attached |-> TRUE, resourceState |-> cache[Target]]

Init == \E o \in ResourceOptions, c \in SUBSET {Target} : Setup(o, c)

InitPaged == \E o \in PagedOptions, c \in SUBSET Pages : Setup(o, c)

InitRead == \E o \in ReadOptions, c \in SUBSET {Target} : Setup(o, c)

InitCollection == \E o \in CollectionOptions, c \in SUBSET {Target} : Setup(o, c)

InitPeers == \E o \in PeerOptions, c \in SUBSET {Target} : SetupWithPeer(o, c)

(* ----------------------- steps of the environment --------------------- *)
Fixed == UNCHANGED <<options, created, overlapped, events, torn>>

\* a task that is not consumer code: it finds the job queue empty
SystemStep == Settled /\ userTurn' = FALSE

\* a resolved reference that is dropped instead of assigned
onResolved_Dropped(s, newVal) == s

\* useResolveResource: `resource.value = quick` / `resource.value = newVal`
onResolved(s, newVal) == setResource(s, newVal)

\* useResolveResource: the timer fires (the reference is a uri or a handle),
\* or the promise fulfils (the reference is a promise)
ResolveOk ==
  /\ pendingRef /\ SystemStep
  /\ pendingRef' = FALSE
  /\ Commit(onResolved(Cur, Target), "resolve", Arg(Target, 0))
  /\ UNCHANGED resolverError /\ Fixed

\* useResolveResource: the reference is a promise, and it rejects
ResolveFail ==
  /\ pendingRef /\ SystemStep
  /\ options.ref = "promise"
  /\ pendingRef' = FALSE
  /\ resolverError' = "ResolveErr"
  /\ Commit(Cur, "resolveFail", NoArg)
  /\ Fixed

\* the scheduler's flush: every queued watcher job, then the render
Flush ==
  /\ queue # <<>>
  /\ userTurn' = FALSE
  /\ Commit(Render(RunQueue(Cur)), "flush", NoArg)
  /\ UNCHANGED <<pendingRef, resolverError>> /\ Fixed

\* the handles whose events can reach the instance
Watched == listeners \cup ({resource} \ {NoRes})

\* the PUT, POST and refresh requests in flight
RECURSIVE Sum(_, _)
Sum(f, S) == IF S = {} THEN 0 ELSE LET x == CHOOSE y \in S : TRUE IN f[x] + Sum(f, S \ {x})
InFlight(s) == Len(s.puts) + Len(s.posts) + Sum(s.refreshes, Uris)

\* an event caused by another user of the client
External == events < MaxEvents /\ events' = events + 1

\* a GET succeeds: Ketting caches the state and emits 'update'
GetOk(u, d) ==
  /\ u \in gets /\ SystemStep
  /\ Commit(cacheState([Cur EXCEPT !.gets = @ \ {u}], mkState(u, d)), "getOk", Arg(u, d))
  /\ UNCHANGED <<pendingRef, resolverError>> /\ Fixed

\* a GET fails: the .catch of the fetch watcher
GetFail(u) ==
  /\ u \in gets /\ SystemStep
  /\ Commit(setError([Cur EXCEPT !.gets = @ \ {u}], "GetErr"), "getFail", Arg(u, 0))
  /\ UNCHANGED <<pendingRef, resolverError>> /\ Fixed

\* another consumer of the client writes the cache of u: 'update' is emitted
ExtUpdate(u, d) ==
  /\ u \in Watched /\ SystemStep /\ External
  /\ Commit(cacheState(Cur, mkState(u, d)), "update", Arg(u, d))
  /\ UNCHANGED <<pendingRef, resolverError, options, created, overlapped, torn>>

\* the task that wrote the cache of u writes it again before it ends: a
\* second 'update' reaches the listeners before the scheduler has flushed
ExtUpdateAgain(u, d) ==
  /\ last.op = "update" /\ last.arg = Arg(u, 1 - d)
  /\ ~Settled /\ ~userTurn /\ External
  /\ userTurn' = FALSE
  /\ Commit(cacheState(Cur, mkState(u, d)), "update", Arg(u, d))
  /\ UNCHANGED <<pendingRef, resolverError, options, created, overlapped, torn>>

\* the client drops the cached state of u and emits 'stale'
ExtStale(u) ==
  /\ u \in Watched /\ SystemStep /\ External
  /\ InFlight(emitStale(Cur, u)) <= MaxPending
  /\ Commit(emitStale([Cur EXCEPT !.cache[u] = NoState], u), "stale", Arg(u, 0))
  /\ UNCHANGED <<pendingRef, resolverError, options, created, overlapped, torn>>

\* a refresh() succeeds: Ketting caches the state and emits 'update'
RefreshOk(u, d) ==
  /\ refreshes[u] > 0 /\ SystemStep
  /\ Commit(cacheState([Cur EXCEPT !.refreshes[u] = @ - 1], mkState(u, d)),
            "refreshOk", Arg(u, d))
  /\ UNCHANGED <<pendingRef, resolverError>> /\ Fixed

\* a .catch of onStale that calls refresh() again
onRefreshRejected_Retries(s, u) ==
  Emit([setError(s, "RefreshErr") EXCEPT !.refreshes[u] = @ + 1], Eff("refresh", u, 0))

\* onStale: .catch(err => { error.value = err })
onRefreshRejected(s, u) == setError(s, "RefreshErr")

\* a refresh() fails: the .catch of onStale
RefreshFail(u) ==
  /\ refreshes[u] > 0 /\ SystemStep
  /\ Commit(onRefreshRejected([Cur EXCEPT !.refreshes[u] = @ - 1], u),
            "refreshFail", Arg(u, 0))
  /\ UNCHANGED <<pendingRef, resolverError>> /\ Fixed

\* the component is unmounted: its watchers are stopped, which runs the
\* subscription watcher's onInvalidate callback and drops the queued jobs
Teardown ==
  /\ ~torn /\ ~goThrows(options.ref)
  /\ torn' = TRUE
  /\ userTurn' = FALSE
  /\ Commit([Cur EXCEPT !.listeners = @ \ {cleanupFor}, !.cleanupFor = NoRes,
                        !.queue = <<>>],
            "teardown", NoArg)
  /\ UNCHANGED <<pendingRef, resolverError, options, created, overlapped, events>>

(* ------------------------- the consumer's API ------------------------- *)
\* consumer code runs in a task of its own, or continues the current one
UserStep(s) == (Settled \/ userTurn) /\ userTurn' = (s.queue # <<>>)

RemoveAt(q, i) == [j \in 1..(Len(q) - 1) |-> IF j < i THEN q[j] ELSE q[j + 1]]

\* stateVal.data = newData: written into the object itself, which a PUT in
\* flight may still hold; no cell is assigned, so nothing is triggered
writeData(s, d) ==
  [s EXCEPT !.resourceState.data = d,
            !.cache = IF s.cellObj = "cached"
                      THEN [@ EXCEPT ![s.resourceState.uri].data = d]
                      ELSE @,
            !.puts = [i \in 1..Len(@) |->
                        IF @[i].aliased THEN [@[i] EXCEPT !.st.data = d] ELSE @[i]]]

\* setData writing the local state only, whatever the mode
setData_NeverPushes(s, d) ==
  LET stateVal == s.resourceState
      resourceVal == s.resource
  IN IF stateVal = NoState \/ resourceVal = NoRes
     THEN Emit(s, Eff("throw:tooEarly", resourceVal, d))
     ELSE writeData(s, d)

\* setData pushing to the cache whatever the mode
setData_AlwaysPushes(s, d) ==
  LET stateVal == s.resourceState
      resourceVal == s.resource
  IN IF stateVal = NoState \/ resourceVal = NoRes
     THEN Emit(s, Eff("throw:tooEarly", resourceVal, d))
     ELSE LET s1 == writeData(s, d)
          IN updateCache(s1, resourceVal, s1.resourceState)

\* setData guarded like setResourceState: by the resource alone
setData_ResourceOnlyGuard(s, d) ==
  LET resourceVal == s.resource
  IN IF resourceVal = NoRes
     THEN Emit(s, Eff("throw:tooEarly", resourceVal, d))
     ELSE LET s1 == writeData(s, d)
          IN IF s.modeVal = "PUT"
             THEN updateCache(s1, resourceVal, s1.resourceState)
             ELSE s1

\* useResource.setData(newData)
setData(s, d) ==
  LET stateVal == s.resourceState
      resourceVal == s.resource
  IN IF stateVal = NoState \/ resourceVal = NoRes
     THEN Emit(s, Eff("throw:tooEarly", resourceVal, d))
     ELSE LET s1 == writeData(s, d)
          IN IF s.modeVal = "PUT"
             THEN updateCache(s1, resourceVal, s1.resourceState)
             ELSE s1

\* setResourceState writing the local cell whatever the mode
setResourceState_AlwaysLocal(s, newState) ==
  LET resourceVal == s.resource
  IN IF resourceVal = NoRes
     THEN Emit(s, Eff("throw:tooEarly", resourceVal, newState.data))
     ELSE setResourceStateValue(s, newState, clone("carried"))

\* useResource.setResourceState(newState)
setResourceState(s, newState) ==
  LET resourceVal == s.resource
  IN IF resourceVal = NoRes
     THEN Emit(s, Eff("throw:tooEarly", resourceVal, newState.data))
     ELSE IF s.modeVal = "PUT"
          THEN updateCache(s, resourceVal, newState)
          ELSE setResourceStateValue(s, newState, clone("carried"))

\* submit() choosing the request by the mode option instead of modeVal
submit_ByOption(s) ==
  LET stateVal == s.resourceState
      resourceVal == s.resource
  IN IF stateVal = NoState \/ resourceVal = NoRes
     THEN Emit(s, Eff("throw:tooEarly", resourceVal, 0))
     ELSE IF options.mode = "POST"
          THEN Emit([s EXCEPT !.posts = Append(@, [uri |-> resourceVal, data |-> stateVal.data])],
                    Eff("POST", resourceVal, stateVal.data))
          ELSE Emit([s EXCEPT !.puts = Append(@, [uri |-> resourceVal, st |-> stateVal,
                                                   aliased |-> TRUE])],
                    Eff("PUT", resourceVal, stateVal.data))

\* useResource.submit(), up to its await
submit(s) ==
  LET stateVal == s.resourceState
      resourceVal == s.resource
  IN IF stateVal = NoState \/ resourceVal = NoRes
     THEN Emit(s, Eff("throw:tooEarly", resourceVal, 0))
     ELSE IF s.modeVal = "POST"
          THEN Emit([s EXCEPT !.posts = Append(@, [uri |-> resourceVal, data |-> stateVal.data])],
                    Eff("POST", resourceVal, stateVal.data))
          ELSE Emit([s EXCEPT !.puts = Append(@, [uri |-> resourceVal, st |-> stateVal,
                                                   aliased |-> TRUE])],
                    Eff("PUT", resourceVal, stateVal.data))

\* the continuation of submit() flipping the mode and keeping the handle
submitCreated_KeepsHandle(s, newResource) == [s EXCEPT !.modeVal = "PUT"]

\* the continuation of submit() forgetting to flip the mode
submitCreated_KeepsPost(s, newResource) == setResource(s, newResource)

\* submit(), after `await resourceVal.postFollow(stateVal)`
submitCreated(s, newResource) == [setResource(s, newResource) EXCEPT !.modeVal = "PUT"]

IssuesPost(s) == HasEff(s.out, "POST")

SetData(d) ==
  LET s == setData(Cur, d)
  IN /\ UserStep(s)
     /\ Commit(s, "setData", Arg(resource, d))
     /\ UNCHANGED <<pendingRef, resolverError>> /\ Fixed

SetResourceState(u, d) ==
  LET s == setResourceState(Cur, mkState(u, d))
  IN /\ u \in {Target, resource} \ {NoRes}
     /\ UserStep(s)
     /\ Commit(s, "setResourceState", Arg(u, d))
     /\ UNCHANGED <<pendingRef, resolverError>> /\ Fixed

Submit ==
  LET s == submit(Cur)
  IN /\ InFlight(s) <= MaxPending
     /\ UserStep(s)
     /\ Commit(s, "submit", Arg(resource, 0))
     /\ overlapped' = (overlapped \/ (IssuesPost(s) /\ posts # <<>>))
     /\ UNCHANGED <<pendingRef, resolverError, options, created, events, torn>>

\* a PUT succeeds: Ketting caches the state object it was given.  Whether it
\* does so through updateCache (which refuses a foreign uri) is not fixed here.
PutOk(i, strict) ==
  /\ i \in 1..Len(puts) /\ SystemStep
  /\ LET p == puts[i]
         s == [Cur EXCEPT !.puts = RemoveAt(@, i)]
     IN Commit(IF strict THEN updateCache(s, p.uri, p.st) ELSE cacheState(s, p.st),
               "putOk", Arg(p.uri, p.st.data))
  /\ UNCHANGED <<pendingRef, resolverError>> /\ Fixed

\* a PUT failure caught into the error cell, as a GET failure is
PutFail_CapturesError(i) ==
  /\ i \in 1..Len(puts) /\ SystemStep
  /\ Commit(setError([Cur EXCEPT !.puts = RemoveAt(@, i)], "PutErr"),
            "putFail", Arg(puts[i].uri, 0))
  /\ UNCHANGED <<pendingRef, resolverError>> /\ Fixed

\* a PUT fails: submit()'s promise rejects, no cell is written
PutFail(i) ==
  /\ i \in 1..Len(puts) /\ SystemStep
  /\ Commit(Emit([Cur EXCEPT !.puts = RemoveAt(@, i)], Eff("reject", puts[i].uri, 0)),
            "putFail", Arg(puts[i].uri, 0))
  /\ UNCHANGED <<pendingRef, resolverError>> /\ Fixed

\* a POST succeeds and is followed to the created resource
PostOk(i) ==
  /\ i \in 1..Len(posts) /\ SystemStep
  /\ created' = created + 1
  /\ Commit(submitCreated([Cur EXCEPT !.posts = RemoveAt(@, i)], CreatedUri(created + 1)),
            "postOk", Arg(CreatedUri(created + 1), posts[i].data))
  /\ UNCHANGED <<pendingRef, resolverError, options, overlapped, events, torn>>

\* a POST failure that gives up creating: the mode is flipped all the same
PostFail_FlipsMode(i) ==
  /\ i \in 1..Len(posts) /\ SystemStep
  /\ Commit(Emit([Cur EXCEPT !.posts = RemoveAt(@, i), !.modeVal = "PUT"],
                 Eff("reject", posts[i].uri, 0)),
            "postFail", Arg(posts[i].uri, 0))
  /\ UNCHANGED <<pendingRef, resolverError>> /\ Fixed

\* a POST fails: submit()'s promise rejects, no cell is written
PostFail(i) ==
  /\ i \in 1..Len(posts) /\ SystemStep
  /\ Commit(Emit([Cur EXCEPT !.posts = RemoveAt(@, i)], Eff("reject", posts[i].uri, 0)),
            "postFail", Arg(posts[i].uri, 0))
  /\ UNCHANGED <<pendingRef, resolverError>> /\ Fixed

\* usePagedCollection.loadNextPage()
loadNextPage(s) ==
  LET val == s.resourceState
      s1 == IF val # NoState /\ hasNext(val) THEN s ELSE Emit(s, Eff("warn", s.resource, 0))
  IN IF val = NoState THEN setResource(s1, NoRes)
     ELSE IF hasNext(val) THEN setResource(s1, followNext(val))
     ELSE Emit(s1, Eff("throw:linkNotFound", s.resource, 0))

LoadNextPage ==
  LET s == loadNextPage(Cur)
  IN /\ UserStep(s)
     /\ Commit(s, "loadNextPage", Arg(resource, 0))
     /\ UNCHANGED <<pendingRef, resolverError>> /\ Fixed

(* --------------------------- specifications --------------------------- *)
Environment ==
  \/ ResolveOk
  \/ ResolveFail
  \/ Flush
  \/ \E u \in Uris, d \in Data : GetOk(u, d)
  \/ \E u \in Uris : GetFail(u)
  \/ \E u \in Uris, d \in Data : ExtUpdate(u, d)
  \/ \E u \in Uris : ExtStale(u)
  \/ \E u \in Uris, d \in Data : RefreshOk(u, d)
  \/ \E u \in Uris : RefreshFail(u)
  \/ Teardown

\* one useResource instance
Next ==
  \/ Environment
  \/ \E d \in Data : SetData(d)
  \/ \E u \in Uris, d \in Data : SetResourceState(u, d)
  \/ Submit
  \/ \E i \in 1..MaxPending, strict \in BOOLEAN : PutOk(i, strict)
  \/ \E i \in 1..MaxPending : PutFail(i)
  \/ \E i \in 1..MaxPending : PostOk(i)
  \/ \E i \in 1..MaxPending : PostFail(i)

Spec == Init /\ [][Next]_vars

\* one usePagedCollection instance
NextPaged ==
  \/ Environment
  \/ LoadNextPage

SpecPaged == InitPaged /\ [][NextPaged]_vars

\* the same, with cache writes that come two to a task
NextPagedBurst ==
  \/ NextPaged
  \/ \E u \in Uris, d \in Data : ExtUpdateAgain(u, d)

SpecPagedBurst == InitPaged /\ [][NextPagedBurst]_vars

\* one useCollection instance
SpecCollection == InitCollection /\ [][Environment]_vars

\* one PUT-mode useResource instance next to a second one on the same resource
NextPeers ==
  \/ Environment
  \/ \E d \in Data : SetData(d)
  \/ \E u \in Uris, d \in Data : SetResourceState(u, d)
  \/ Submit
  \/ \E i \in 1..MaxPending, strict \in BOOLEAN : PutOk(i, strict)
  \/ \E i \in 1..MaxPending : PutFail(i)

SpecPeers == InitPeers /\ [][NextPeers]_vars

\* one useReadResource instance, for every kind of reference
SpecRead == InitRead /\ [][Environment]_vars

\* the same, with every promise, timer and GET eventually settling and the
\* scheduler eventually flushing
SpecReadFair ==
  /\ SpecRead
  /\ WF_vars(ResolveOk \/ ResolveFail)
  /\ WF_vars(Flush)
  /\ WF_vars(\E u \in Uris, d \in Data : GetOk(u, d) \/ GetFail(u))

(* ====================================================================== *)
(*                               Claims                                   *)
(* ====================================================================== *)

\* C1 (P1, cache-hit skip).  When the fetch watcher runs for a handle of a
\* non-POST instance whose uri is in the cache, the flush issues no GET, puts
\* no GET in flight, and leaves loading false.
C1_CacheHitSkip ==
  [][ ( /\ last'.op = "flush"
        /\ InSeq(queue, "fetch")
        /\ resource # NoRes
        /\ options.mode # "POST"
        /\ cache[resource] # NoState )
      => ( /\ ~HasEff(last'.out, "GET")
           /\ gets' = gets
           /\ loading' = FALSE ) ]_vars

\* a flush adopted the cached state of the handle that became current
C1_Witness ==
  /\ last.op = "flush"
  /\ HasEff(last.out, "cacheHit")
  /\ resource # NoRes
  /\ resourceState = cache[resource]
  /\ ~loading
  /\ gets = {}

\* C2 (P2, loading/error exclusivity), as claimed.  In every settled state,
\* loading implies that resourceState is undefined and error is null.
C2_LoadingExclusive ==
  (Settled /\ loading) => (resourceState = NoState /\ error = "none")

\* the instance was created in POST mode and has become a PUT instance
Transitioned == options.mode = "POST" /\ modeVal = "PUT"

\* the cells and the client state that a rejected call must leave alone
Cells == <<loading, error, resourceState, resource, modeVal, items>>
ClientState == <<cache, gets, refreshes, puts, posts, listeners>>

TooEarly(out) == Len(out) = 1 /\ out[1].op = "throw:tooEarly"

\* C3 (P3, POST->PUT equivalence), as claimed.  Once a POST-mode instance has
\* become a PUT instance and has settled, it does what a PUT-mode instance
\* on the created resource does: setData pushes the state to the cache of
\* that resource, an update event of that resource is adopted, a stale
\* event is answered by a refresh when refreshOnStale is set, and submit()
\* issues a PUT to that resource.
C3_PostThenPutEquivalent ==
  [][ (Transitioned /\ Settled /\ resourceState # NoState) =>
        /\ last'.op = "setData" =>
             /\ HasEff(last'.out, "updateCache")
             /\ cache'[resource] = mkState(resource, last'.arg.data)
        /\ (last'.op = "update" /\ last'.arg.uri = resource) =>
             /\ resourceState' = mkState(resource, last'.arg.data)
        /\ (last'.op = "stale" /\ last'.arg.uri = resource /\ options.refreshOnStale) =>
             /\ HasEff(last'.out, "refresh")
        /\ last'.op = "submit" =>
             /\ HasEff(last'.out, "PUT")
             /\ last'.out[1].uri = resource ]_vars

\* C4 (mode is one-way).  Once modeVal is PUT it stays PUT, and no step
\* taken from a state whose mode is PUT issues a POST.
C4_ModeOneWay ==
  [][ modeVal = "PUT" => (modeVal' = "PUT" /\ ~HasEff(last'.out, "POST")) ]_vars

\* a submit() after the transition of a POST-mode instance issued a PUT
C4_Witness ==
  /\ Transitioned
  /\ last.op = "submit"
  /\ HasEff(last.out, "PUT")
  /\ last.out[1].uri = CreatedUri(1)

\* C5 (exactly-once transition), as claimed.  At most one POST-and-follow is
\* issued (so at most one is in flight or has succeeded) and the resource
\* cell is replaced by a created handle at most once.
C5_ExactlyOnceAlways == Len(posts) + created <= 1

\* C5, as amended.  If no submit() is called while a POST is in flight, at
\* most one POST-and-follow succeeds and the resource cell is replaced by a
\* created handle at most once, after which no POST is in flight.
C5_ExactlyOnceSerialized ==
  ~overlapped => (created <= 1 /\ (created = 1 => posts = <<>>))

\* the one POST of serialized submits succeeded and replaced the resource
C5_Witness ==
  /\ ~overlapped
  /\ created = 1
  /\ last.op = "postOk"
  /\ resource = CreatedUri(1)
  /\ modeVal = "PUT"

\* C6 (P4, guard of submit and setData).  A submit() or setData(d) called
\* while resource or resourceState is absent throws "too early", calls
\* nothing on the client, and changes no cell.
C6_TooEarlyGuard ==
  [][ ( /\ last'.op \in {"submit", "setData"}
        /\ (resource = NoRes \/ resourceState = NoState) )
      => ( /\ TooEarly(last'.out)
           /\ UNCHANGED Cells
           /\ UNCHANGED ClientState
           /\ UNCHANGED <<queue, dataCell>> ) ]_vars

\* setData or submit was refused while the first GET was in flight
C6_Witness ==
  /\ last.op \in {"submit", "setData"}
  /\ TooEarly(last.out)
  /\ resource # NoRes
  /\ resourceState = NoState
  /\ gets # {}

\* C7 (guard of setResourceState), as claimed.  A setResourceState(S) called
\* while resource or resourceState is absent throws "too early", updates no
\* cache, and changes no cell.
C7_SetResourceStateGuard ==
  [][ ( /\ last'.op = "setResourceState"
        /\ (resource = NoRes \/ resourceState = NoState) )
      => ( /\ TooEarly(last'.out)
           /\ UNCHANGED Cells
           /\ UNCHANGED ClientState ) ]_vars

\* the steps that deliver an 'update' event carrying the state in last.arg
UpdateOps == {"update", "getOk", "refreshOk"}

\* C8 (P5, event-driven overwrite).  In a non-POST instance, an update event
\* carrying S on a handle the instance listens to makes resourceState a copy
\* of S, whatever the cell held; the flush that settles the queue keeps it,
\* and the consumer then reads S.data.
C8_UpdateOverwrites ==
  [][ /\ ( /\ options.mode # "POST"
           /\ last'.op \in UpdateOps
           /\ last'.arg.uri \in listeners )
         => ( /\ resourceState' = mkState(last'.arg.uri, last'.arg.data)
              /\ DataValue' = last'.arg.data )
      /\ ( /\ options.mode # "POST"
           /\ last.op \in UpdateOps
           /\ last.arg.uri \in listeners
           /\ last'.op = "flush" )
         => ( /\ Settled'
              /\ resourceState' = mkState(last.arg.uri, last.arg.data)
              /\ DataValue' = last.arg.data
              /\ ~loading' ) ]_vars

\* an update event replaced a payload that the consumer was shown before
C8_Witness ==
  /\ options.mode # "POST"
  /\ last.op = "update"
  /\ last.arg.uri \in listeners
  /\ dataCell.value # NoData
  /\ dataCell.value # last.arg.data
  /\ resourceState = mkState(last.arg.uri, last.arg.data)

\* the member sequences of the cached pages 1..n, in page order
RECURSIVE MembersUpTo(_)
MembersUpTo(n) ==
  IF n = 0 THEN <<>> ELSE MembersUpTo(n - 1) \o followAll(cache[n])

\* C9 (P6, paged accumulation).  With no event other than the page loads
\* themselves, once page k of the collection has loaded and the queue has
\* settled, items is the concatenation of the member sequences of pages
\* 1..k in page order; on the last page hasNextPage is false.
C9_PagedAccumulation ==
  ( /\ events = 0
    /\ Settled
    /\ ~loading
    /\ resourceState # NoState )
  => ( /\ resourceState.uri \in Pages
       /\ items = MembersUpTo(resourceState.uri)
       /\ (resourceState.uri = NumPages => ~hasNextPage) )

\* the last page was fetched after NumPages - 1 calls of loadNextPage
C9_Witness ==
  /\ events = 0
  /\ Settled
  /\ ~loading
  /\ last.op = "flush"
  /\ resourceState # NoState
  /\ resourceState.uri = NumPages
  /\ resource = NumPages
  /\ ~hasNextPage
  /\ Len(items) >= NumPages
  /\ items = MembersUpTo(NumPages)

\* C10 (loadNextPage without a next page), as claimed.  A loadNextPage()
\* called when the state has no 'next' link, or when there is no state,
\* only warns: it throws nothing and leaves resource, resourceState, items,
\* loading and error unchanged, and the flush that follows leaves the
\* attached listeners unchanged.
C10_LoadNextPageNoop ==
  [][ /\ (last'.op = "loadNextPage" /\ ~hasNextPage)
         => ( /\ HasEff(last'.out, "warn")
              /\ ~HasEff(last'.out, "throw:linkNotFound")
              /\ UNCHANGED <<resource, resourceState, items, loading, error>> )
      /\ (last.op = "loadNextPage" /\ HasEff(last.out, "warn") /\ last'.op = "flush")
         => UNCHANGED listeners ]_vars

\* C11 (scoped subscription), as claimed.  Once the queue has settled, the
\* handles that carry the instance's update/stale listeners are none when
\* the mode is POST, when no handle is resolved or after teardown, and
\* otherwise exactly the current resource handle.
C11_ScopedSubscription ==
  Settled =>
    listeners = IF modeVal = "POST" \/ resource = NoRes \/ torn
                THEN {}
                ELSE {resource}

\* C12 (stale refresh).  With refreshOnStale set, a stale event on the
\* handle the instance listens to calls refresh() on that handle exactly
\* once and touches nothing else; a refresh that rejects calls nothing
\* again, sets error to the rejection, and loading, if it was false, is
\* still false after the rejection and after the flush that follows it.
C12_StaleRefresh ==
  [][ /\ ( /\ last'.op = "stale"
           /\ options.refreshOnStale
           /\ last'.arg.uri \in listeners )
         => ( /\ last'.out = <<Eff("refresh", last'.arg.uri, 0)>>
              /\ refreshes' = [refreshes EXCEPT ![last'.arg.uri] = @ + 1]
              /\ UNCHANGED <<gets, loading, error, resourceState>> )
      /\ (last'.op = "refreshFail")
         => ( /\ last'.out = <<>>
              /\ refreshes' = [refreshes EXCEPT ![last'.arg.uri] = @ - 1]
              /\ gets' = gets
              /\ error' = "RefreshErr"
              /\ (~loading => ~loading') )
      /\ (last.op = "refreshFail" /\ last'.op = "flush" /\ ~loading)
         => ( /\ ~loading'
              /\ error' = "RefreshErr"
              /\ UNCHANGED <<gets, refreshes>> ) ]_vars

\* the one refresh of a stale event was rejected and the queue has settled
C12_Witness ==
  /\ options.refreshOnStale
  /\ last.op = "flush"
  /\ error = "RefreshErr"
  /\ ~loading
  /\ resourceState # NoState
  /\ events = 1
  /\ \A u \in Uris : refreshes[u] = 0
  /\ gets = {}

\* C13 (stale ignored).  With refreshOnStale false, a stale event issues no
\* refresh and no GET and leaves loading, error, resourceState, resource,
\* items, the listeners and the job queue unchanged.
C13_StaleIgnored ==
  [][ (last'.op = "stale" /\ ~options.refreshOnStale)
      => ( /\ last'.out = <<>>
           /\ UNCHANGED <<loading, error, resourceState, resource, items>>
           /\ UNCHANGED <<gets, refreshes, listeners, queue>> ) ]_vars

\* a stale event reached the listener of a loaded page and was ignored
C13_Witness ==
  /\ ~options.refreshOnStale
  /\ last.op = "stale"
  /\ last.arg.uri \in listeners
  /\ resourceState # NoState
  /\ resourceState.uri = last.arg.uri
  /\ items # <<>>
  /\ cache[last.arg.uri] = NoState

\* the steps that can make the instance adopt a state delivered to it
AdoptionOps == {"update", "getOk", "refreshOk", "putOk"}

\* C14 (a new state supersedes an earlier error), as claimed.  When the
\* instance adopts a state (from a cache hit, a completed GET or an update
\* event) while error is set, error is null once the queue has settled.
C14_StateSupersedesError ==
  [][ /\ ( /\ last.op \in AdoptionOps
           /\ last.arg.uri = resourceState.uri
           /\ InSeq(queue, "state")
           /\ last'.op = "flush" )
         => error' = "none"
      /\ (last'.op = "flush" /\ HasEff(last'.out, "cacheHit"))
         => error' = "none" ]_vars

\* C15 (a failing uri is captured, not thrown), as claimed.  When the
\* reference is a uri that the client cannot turn into a handle, the hook
\* invocation raises nothing, the resolver's error cell holds the failure
\* and the resource cell is unset.
C15_UriFailureCaptured ==
  goThrows(options.ref)
  => ( /\ ~HasEff(last.out, "throw:go")
       /\ resolverError # "none"
       /\ resource = NoRes )

\* C16 (deferred assignment of a live handle).  When the reference is a
\* handle, or a uri the client resolves synchronously, the resource cell is
\* unset when the hook returns; it holds the handle only after a later
\* task, the resolver's timer, has run.
C16_DeferredAssignment ==
  options.ref \in {"uri", "handle"}
  => ( /\ last.op = "setup" => (resource = NoRes /\ pendingRef)
       /\ resource # NoRes => (~pendingRef /\ last.op # "setup")
       /\ pendingRef => resource = NoRes )

\* the timer has assigned the handle the reference already was
C16_Witness ==
  /\ options.ref = "handle"
  /\ last.op = "resolve"
  /\ resource = Target
  /\ ~pendingRef
  /\ queue # <<>>

\* C17 (pending-promise reference).  When the promise fulfils with handle H
\* the resource cell becomes H and the resolver's error cell stays null;
\* when it rejects with E the resolver's error cell becomes E, the resource
\* cell stays unset and no other cell is written.
C17_PromiseReference ==
  [][ options.ref = "promise" =>
        /\ last'.op = "resolve"
           => ( /\ resource' = last'.arg.uri
                /\ resource' # NoRes
                /\ resolverError' = "none"
                /\ error' = error )
        /\ last'.op = "resolveFail"
           => ( /\ resolverError' = "ResolveErr"
                /\ resource' = NoRes
                /\ UNCHANGED <<error, loading, resourceState, queue>> ) ]_vars

\* the promise was rejected: only the resolver's error cell knows
C17_Witness ==
  /\ options.ref = "promise"
  /\ last.op = "resolveFail"
  /\ resolverError = "ResolveErr"
  /\ resource = NoRes
  /\ error = "none"

\* C18 (loading ends), as claimed.  If every promise and every GET settles,
\* a non-POST instance that is not torn down eventually has loading false
\* with a resourceState or an error set.
C18_LoadingEnds ==
  (options.mode # "POST" /\ ~goThrows(options.ref))
  => <>( \/ torn
         \/ (~loading /\ (resourceState # NoState \/ error # "none")) )

\* C19 (uri-match skip).  When the fetch watcher runs for a resolved handle
\* of a non-POST instance whose resourceState has the handle's uri, no GET
\* is issued, the cache is not used, resourceState is unchanged, and
\* loading is unchanged by it.
C19_UriMatchSkip ==
  [][ ( /\ last'.op = "flush"
        /\ InSeq(queue, "fetch")
        /\ options.mode # "POST"
        /\ resource # NoRes
        /\ resourceState # NoState
        /\ resourceState.uri = resource )
      => ( /\ ~HasEff(last'.out, "GET")
           /\ ~HasEff(last'.out, "cacheHit")
           /\ gets' = gets
           /\ resourceState' = resourceState
           /\ (~InSeq(queue, "state") /\ ~InSeq(queue, "error")) => loading' = loading ) ]_vars

\* the initial state was kept although the cache held another version
C19_Witness ==
  /\ options.mode # "POST"
  /\ options.init = "match"
  /\ last.op = "flush"
  /\ events = 0
  /\ resource = Target
  /\ listeners = {Target}
  /\ resourceState = mkState(Target, 0)
  /\ cache[Target] = mkState(Target, 1)
  /\ gets = {}
  /\ ~loading

\* the flush runs the fetch watcher for an uncached handle whose uri the
\* current state does not have
UncachedFetch ==
  /\ InSeq(queue, "fetch")
  /\ options.mode # "POST"
  /\ resource # NoRes
  /\ ~(resourceState # NoState /\ resourceState.uri = resource)
  /\ cache[resource] = NoState

\* C20 (uncached fetch), as claimed.  From the uncached fetch until its GET
\* settles, loading is true and resourceState is cleared.
C20_LoadingUntilGetSettles ==
  ( /\ options.mode # "POST"
    /\ ~torn
    /\ Settled
    /\ resource # NoRes
    /\ resource \in gets )
  => (loading /\ resourceState = NoState)

\* C20, as amended.  An uncached fetch issues exactly one GET, carrying
\* initialGetRequestHeaders, clears resourceState and sets loading; loading
\* then stays true while the GET is in flight and neither a state nor an
\* error has been delivered; the GET's success makes resourceState a copy of
\* the returned state and the next flush ends loading.  A refresh never
\* carries the headers.
C20_UncachedFetch ==
  [][ /\ (last'.op = "flush" /\ UncachedFetch)
         => ( /\ last'.out = <<Eff("GET", resource, IF options.headers THEN 1 ELSE 0)>>
              /\ gets' = gets \cup {resource}
              /\ resourceState' = NoState
              /\ loading' )
      /\ ( /\ options.mode # "POST" /\ ~torn' /\ Settled'
           /\ resource' # NoRes /\ resource' \in gets'
           /\ resourceState' = NoState /\ error' = "none" )
         => loading'
      /\ (last'.op = "getOk" /\ last'.arg.uri \in listeners)
         => resourceState' = mkState(last'.arg.uri, last'.arg.data)
      /\ (last.op = "getOk" /\ last.arg.uri \in listeners /\ last'.op = "flush")
         => (~loading' /\ resourceState' = mkState(last.arg.uri, last.arg.data))
      /\ \A i \in 1..Len(last'.out) :
           last'.out[i].op = "refresh" => last'.out[i].data = 0 ]_vars

\* the GET of an uncached handle, with the headers, has just been issued
C20_Witness ==
  /\ options.headers
  /\ last.op = "flush"
  /\ last.out = <<Eff("GET", resource, 1)>>
  /\ resource \in gets
  /\ resourceState = NoState
  /\ loading

\* C21 (a failed GET is captured).  When a GET of the instance rejects,
\* nothing is thrown to the consumer, error becomes the rejection and
\* resourceState is not written; the flush that follows sets loading to
\* false and leaves error and resourceState as they are.
C21_GetFailureCaptured ==
  [][ /\ (last'.op = "getFail")
         => ( /\ last'.out = <<>>
              /\ error' = "GetErr"
              /\ gets' = gets \ {last'.arg.uri}
              /\ UNCHANGED <<resourceState, resource, refreshes>> )
      /\ (last.op = "getFail" /\ last'.op = "flush")
         => ( /\ ~loading'
              /\ error' = "GetErr"
              /\ UNCHANGED <<resourceState, resource, gets, refreshes>> ) ]_vars

\* the first GET was rejected and the queue has settled
C21_Witness ==
  /\ last.op = "flush"
  /\ events = 0
  /\ resource = Target
  /\ error = "GetErr"
  /\ ~loading
  /\ resourceState = NoState
  /\ gets = {}

\* C22 (POST mode does not fetch).  In an instance created in POST mode no
\* step issues a GET, adopts a cached state or attaches a listener, and
\* loading is false throughout; the flush that follows the resolution of
\* the handle leaves resourceState equal to the initial state, even when
\* the cache holds a state of the handle.
C22_PostModeNoFetch ==
  [][ options.mode = "POST" =>
        /\ ~HasEff(last'.out, "GET")
        /\ ~HasEff(last'.out, "cacheHit")
        /\ gets' = {}
        /\ listeners' = {}
        /\ ~loading'
        /\ (last.op = "resolve" /\ last'.op = "flush")
           => ( /\ last'.out = <<>>
                /\ resourceState' = InitialState(options)
                /\ resource' = resource ) ]_vars

\* the handle resolved in POST mode, with its uri in the cache
C22_Witness ==
  /\ options.mode = "POST"
  /\ modeVal = "POST"
  /\ last.op = "flush"
  /\ resource = Target
  /\ cache[Target] # NoState
  /\ resourceState = InitialState(options)
  /\ resourceState # cache[Target]
  /\ listeners = {}
  /\ ~loading

\* both cells that setData and submit need are set
Present == resource # NoRes /\ resourceState # NoState

\* C23 (setData in PUT mode), as claimed.  With resource and resourceState
\* present and the mode PUT, in a mounted component, setData(d) pushes a state with data d to the
\* cache of the current handle through updateCache, within the call, and
\* issues no request; after the flush that follows, resourceState.data is d.
C23_SetDataPushes ==
  [][ /\ (last'.op = "setData" /\ modeVal = "PUT" /\ Present /\ ~torn)
         => ( /\ last'.out = <<Eff("updateCache", resource, last'.arg.data)>>
              /\ cache'[resource] = mkState(resource, last'.arg.data)
              /\ resourceState'.data = last'.arg.data
              /\ Len(puts') = Len(puts)
              /\ UNCHANGED <<posts, gets, refreshes>> )
      /\ (last.op = "setData" /\ modeVal = "PUT" /\ ~torn /\ last'.op = "flush")
         => resourceState'.data = last.arg.data ]_vars

\* C24 (setData in POST mode).  With both cells present and the mode POST,
\* setData(d) calls nothing on the client: the cache and the requests in
\* flight are unchanged, and of the cells only the payload of resourceState
\* changes, to d.
C24_SetDataLocal ==
  [][ (last'.op = "setData" /\ modeVal = "POST" /\ Present)
      => ( /\ last'.out = <<>>
           /\ resourceState' = [resourceState EXCEPT !.data = last'.arg.data]
           /\ UNCHANGED <<cache, puts, posts, gets, refreshes, listeners>>
           /\ UNCHANGED <<resource, loading, error, modeVal, items>> ) ]_vars

\* a POST-mode setData replaced the payload the consumer had been shown
C24_Witness ==
  /\ modeVal = "POST"
  /\ last.op = "setData"
  /\ last.out = <<>>
  /\ resource = Target
  /\ resourceState.data = last.arg.data
  /\ dataCell.value # NoData
  /\ dataCell.value # last.arg.data
  /\ cache[Target] # NoState

\* C25 (setResourceState routing).  With the resource present, in PUT mode
\* setResourceState(S) calls updateCache(S) on the current handle and
\* writes resourceState only through the update listener; in POST mode it
\* calls nothing on the client and assigns a state equal to S to the cell.
C25_SetResourceStateRouting ==
  [][ (last'.op = "setResourceState" /\ resource # NoRes) =>
        /\ modeVal = "PUT"
           => ( /\ Len(last'.out) = 1
                /\ last'.out[1].op \in {"updateCache", "throw:uriMismatch"}
                /\ last'.out[1].uri = resource
                /\ last'.out[1].data = last'.arg.data
                /\ last'.out[1].op = "updateCache"
                   => cache'[resource] = mkState(last'.arg.uri, last'.arg.data)
                /\ (last'.out[1].op = "throw:uriMismatch" \/ resource \notin listeners)
                   => resourceState' = resourceState
                /\ (last'.out[1].op = "updateCache" /\ resource \in listeners)
                   => resourceState' = cache'[resource] )
        /\ modeVal = "POST"
           => ( /\ last'.out = <<>>
                /\ cache' = cache
                /\ resourceState' = mkState(last'.arg.uri, last'.arg.data)
                /\ ~torn => InSeq(queue', "state") ) ]_vars

\* a PUT-mode setResourceState reached the cell through the cache
C25_Witness ==
  /\ modeVal = "PUT"
  /\ options.mode = "PUT"
  /\ last.op = "setResourceState"
  /\ last.out = <<Eff("updateCache", resource, last.arg.data)>>
  /\ cache[resource] = mkState(resource, last.arg.data)
  /\ resourceState = cache[resource]
  /\ dataCell.value # NoData
  /\ dataCell.value # last.arg.data

\* C26 (submit in PUT mode).  With both cells present and the mode PUT,
\* submit() issues exactly one PUT of the current resourceState to the
\* current handle and writes no cell; when a PUT rejects, the rejection goes
\* to the caller of submit() and error, loading, resourceState, resource and
\* the mode are unchanged.
C26_SubmitPut ==
  [][ /\ (last'.op = "submit" /\ modeVal = "PUT" /\ Present)
         => ( /\ last'.out = <<Eff("PUT", resource, resourceState.data)>>
              /\ puts' = Append(puts, [uri |-> resource, st |-> resourceState,
                                       aliased |-> TRUE])
              /\ UNCHANGED <<error, loading, resourceState, resource, modeVal>>
              /\ UNCHANGED <<posts, gets, refreshes, cache, queue>> )
      /\ (last'.op = "putFail")
         => ( /\ last'.out = <<Eff("reject", last'.arg.uri, 0)>>
              /\ Len(puts') = Len(puts) - 1
              /\ UNCHANGED <<error, loading, resourceState, resource, modeVal>>
              /\ UNCHANGED <<posts, gets, refreshes, cache, queue>> ) ]_vars

\* the PUT of a loaded resource was rejected
C26_Witness ==
  /\ options.mode = "PUT"
  /\ last.op = "putFail"
  /\ last.arg.uri = resource
  /\ last.out = <<Eff("reject", resource, 0)>>
  /\ resourceState # NoState
  /\ error = "none"
  /\ ~loading
  /\ puts = <<>>

\* C27 (create and follow are one step).  In an instance created in POST
\* mode, every state has either the mode POST and no created handle in the
\* resource cell, or the mode PUT and a created handle in it; a successful
\* POST-and-follow sets both in one step, and a submit() after it issues a
\* PUT to the created handle.
C27_CreateAndFollowAtomic ==
  [][ options.mode = "POST" =>
        /\ (modeVal' = "POST") <=> (resource' \in {NoRes, Target})
        /\ (modeVal' = "PUT") <=> (\E n \in 1..created' : resource' = CreatedUri(n))
        /\ last'.op = "postOk"
           => (resource' = last'.arg.uri /\ modeVal' = "PUT")
        /\ (last'.op = "submit" /\ modeVal = "PUT" /\ Present)
           => last'.out = <<Eff("PUT", resource, resourceState.data)>> ]_vars

\* the created handle and the mode PUT appeared together
C27_Witness ==
  /\ options.mode = "POST"
  /\ last.op = "postOk"
  /\ resource = last.arg.uri
  /\ resource = CreatedUri(created)
  /\ modeVal = "PUT"
  /\ resourceState.uri = BlankUri
  /\ queue # <<>>

\* C28 (cross-instance visibility).  With a second instance listening to
\* the same resource through the same client, a setData(d) of a PUT-mode
\* instance whose cells are present, or a setResourceState(S) with a state
\* S of that resource, makes the second instance's resourceState equal to
\* the written state within the call, and no request is issued for it.
C28_CrossInstanceVisibility ==
  [][ (peer.attached /\ modeVal = "PUT" /\ resource = Target) =>
        /\ (last'.op = "setData" /\ Present)
           => ( /\ peer'.resourceState = mkState(Target, last'.arg.data)
                /\ cache'[Target] = peer'.resourceState
                /\ UNCHANGED <<gets, refreshes>> )
        /\ (last'.op = "setResourceState" /\ last'.arg.uri = Target)
           => ( /\ peer'.resourceState = mkState(Target, last'.arg.data)
                /\ cache'[Target] = peer'.resourceState
                /\ UNCHANGED <<gets, refreshes>> ) ]_vars

\* a setData replaced the payload that both instances held
C28_Witness ==
  /\ peer.attached
  /\ modeVal = "PUT"
  /\ last.op = "setData"
  /\ last.out = <<Eff("updateCache", Target, last.arg.data)>>
  /\ peer.resourceState = mkState(Target, last.arg.data)
  /\ resourceState = peer.resourceState
  /\ dataCell.value # NoData
  /\ dataCell.value # last.arg.data

\* C29 (the collection replaces).  In a mounted useCollection instance,
\* once the queue has settled with a resourceState, items is exactly the
\* sequence of handles that following rel in that state gives; nothing of
\* an earlier state is kept.
C29_CollectionReplaces ==
  (options.kind = "collection" /\ ~torn /\ Settled /\ resourceState # NoState)
  => items = followAll(resourceState)

\* a later, shorter version of the collection replaced the items
C29_Witness ==
  /\ options.kind = "collection"
  /\ ~torn
  /\ last.op = "flush"
  /\ events = MaxEvents
  /\ resourceState = mkState(Target, 0)
  /\ items = followAll(resourceState)
  /\ Len(items) = 1

\* C30 (hasNextPage).  hasNextPage is true exactly when a resourceState is
\* present and it is a page that links to a next one; while no state is
\* loaded it is false.
C30_HasNextPage ==
  /\ hasNextPage <=> (resourceState # NoState /\ resourceState.uri \in 1..(NumPages - 1))
  /\ resourceState = NoState => ~hasNextPage

\* the second page is loading: no state, so no next page is reported
C30_Witness ==
  /\ options.kind = "paged"
  /\ resource = 2
  /\ resource \in gets
  /\ resourceState = NoState
  /\ loading
  /\ items # <<>>
  /\ ~hasNextPage

\* C31 (cached resource ready immediately).  When a hook is created for a
\* uri or a handle whose state is in the client's cache, then at the return
\* of the hook invocation loading is false and resourceState (hence data) is
\* the cached snapshot.
C31_CachedReadyAtReturn ==
  ( /\ last.op = "setup"
    /\ options.ref \in {"uri", "handle"}
    /\ options.mode = "PUT"
    /\ options.init = "none"
    /\ cache[Target] # NoState )
  => ( /\ ~loading
       /\ resourceState = cache[Target] )

C33_DataTracksPayload ==
  (options.kind = "resource" /\ ~torn /\ Settled)
  => DataValue = Payload(resourceState)

\* C34 (uri consistency).  In a mounted instance that was not created in
\* POST mode, in every settled state in which resource and resourceState are
\* both present, resourceState is a state of the current handle; the result
\* of a GET or a refresh of a handle that is no longer the current one
\* leaves resourceState as it was.
C34_UriConsistency ==
  [][ /\ (options.mode # "POST" /\ ~torn' /\ Settled' /\ Present')
         => resourceState'.uri = resource'
      /\ ( /\ options.mode # "POST" /\ ~torn
           /\ last'.op \in AdoptionOps
           /\ resource # NoRes
           /\ last'.arg.uri # resource )
         => resourceState' = resourceState ]_vars

\* the refresh of the first page completed after the second became current
C34_Witness ==
  /\ ~torn
  /\ last.op = "refreshOk"
  /\ last.arg.uri = 1
  /\ resource = 2
  /\ resourceState # NoState
  /\ resourceState.uri = 2
  /\ cache[1] = mkState(1, last.arg.data)

\* C35 (requests for a superseded handle).  In a mounted instance, when the
\* GET of a handle that is no longer the current one settles (fails or
\* succeeds) while the GET of the current handle is still in flight, error
\* is not set, loading stays as it is and no watcher is queued that would
\* change it.
C35_SupersededGetIgnored ==
  [][ ( /\ ~torn
        /\ last'.op \in {"getFail", "getOk"}
        /\ resource # NoRes
        /\ last'.arg.uri # resource
        /\ resource \in gets )
      => ( /\ error' = error
           /\ loading' = loading
           /\ queue' = queue ) ]_vars

\* items grows by appending suffix: items' = items \o suffix
IsPrefix(p, q) == Len(p) <= Len(q) /\ SubSeq(q, 1, Len(p)) = p

\* C36 (paged items only grow by appending), as claimed.  Across every step
\* of a usePagedCollection instance items is a prefix of its next value,
\* and every adoption of a state appends that state's members once: a state
\* that was adopted and whose members are not appended yet is still in the
\* cell when the items watcher runs.
C36_EachAdoptionAppends ==
  [][ /\ IsPrefix(items, items')
      /\ (items' # items)
         => (last'.op = "flush" /\ items' = items \o followAll(resourceState'))
      /\ (resourceState # NoState /\ InSeq(queue, "items"))
         => resourceState' = resourceState ]_vars

\* C36, amended.  Across every step items is a prefix of its next value; it
\* changes only in a flush, which appends once the members of the state
\* that is in the cell when the items watcher runs.
C36_AppendOnly ==
  [][ /\ IsPrefix(items, items')
      /\ (items' # items)
         => (last'.op = "flush" /\ items' = items \o followAll(resourceState')) ]_vars

\* an update of the first page appended its members behind those the page
\* had when it was loaded
C36_Witness ==
  /\ last.op = "flush"
  /\ ~torn
  /\ resource = 1
  /\ resourceState = mkState(1, 1)
  /\ items = followAll(mkState(1, 0)) \o followAll(mkState(1, 1))

\* C37 (failed create).  When the POST issued by submit() is rejected, the
\* promise of submit() rejects and no cell is written: the mode, resource,
\* resourceState, loading and error are unchanged and no watcher is queued;
\* a submit() called in POST mode afterwards issues a POST to the handle in
\* the resource cell with the state then in the cell.
C37_FailedCreateKeepsPost ==
  [][ /\ last'.op = "postFail"
         => ( /\ last'.out = <<Eff("reject", last'.arg.uri, 0)>>
              /\ UNCHANGED <<modeVal, resource, resourceState, loading, error,
                             queue, listeners, cache>>
              /\ Len(posts') = Len(posts) - 1 )
      /\ (last.op = "postFail" /\ modeVal = "POST" /\ Present /\ last'.op = "submit")
         => ( /\ last'.out = <<Eff("POST", resource, resourceState.data)>>
              /\ resource = last.arg.uri
              /\ Len(posts') = Len(posts) + 1 ) ]_vars

\* the create was rejected: the instance is as it was before submit()
C37_Witness ==
  /\ last.op = "postFail"
  /\ last.out = <<Eff("reject", Target, 0)>>
  /\ modeVal = "POST"
  /\ created = 0
  /\ resource = Target
  /\ resourceState # NoState
  /\ posts = <<>>
  /\ error = "none"
  /\ ~loading

\* C38 (a stale-triggered refresh keeps the old data).  With refreshOnStale
\* set, a stale event on a handle the instance listens to calls refresh()
\* and writes no cell: loading, resourceState, items, data and error are as
\* before and no watcher is queued.  Neither the stale event nor a failing
\* refresh sets loading to true or changes resourceState or items; the
\* state changes when the result of the refresh is delivered.
C38_StaleKeepsData ==
  [][ /\ ( /\ last'.op = "stale"
           /\ options.refreshOnStale
           /\ last'.arg.uri \in listeners )
         => ( /\ last'.out = <<Eff("refresh", last'.arg.uri, 0)>>
              /\ UNCHANGED <<loading, resourceState, items, dataCell, error, queue>> )
      /\ last'.op \in {"stale", "refreshFail"}
         => ( /\ loading' => loading
              /\ UNCHANGED <<resourceState, items>> )
      /\ (last'.op = "refreshOk" /\ last'.arg.uri \in listeners)
         => ( /\ resourceState' = mkState(last'.arg.uri, last'.arg.data)
              /\ loading' => loading ) ]_vars

\* the second page went stale and is being refreshed, with its items shown
C38_Witness ==
  /\ last.op = "stale"
  /\ last.out = <<Eff("refresh", 2, 0)>>
  /\ refreshes[2] = 1
  /\ cache[2] = NoState
  /\ resource = 2
  /\ resourceState # NoState
  /\ resourceState.uri = 2
  /\ ~loading
  /\ Len(items) >= 2

\* C39 (no writes after teardown).  Once the component is unmounted, no
\* update or stale event and no completion of a request that was in flight
\* writes loading, error, resourceState or items, and none calls refresh().
C39_NoWritesAfterTeardown ==
  [][ torn => ( /\ UNCHANGED <<loading, error, resourceState, items>>
                /\ ~HasEff(last'.out, "refresh") ) ]_vars

====
